---- MODULE Spec2Model ----
(***************************************************************************)
(* Trip planner backend: the trip routes (src/src/routes/trips.ts) and the *)
(* authentication pre-handler (src/src/middleware/auth.ts) over the        *)
(* relational store of the migrations (User, Trip, TripMember, TripDay,    *)
(* ItineraryItem).                                                         *)
(*                                                                         *)
(* A table is the sequence of its rows in insertion order; a row's id is   *)
(* its position.  An instant is a number of ticks, TicksPerDay ticks to    *)
(* the day.  Every handler is one action, pre-handler included; `req' and  *)
(* `resp' hold the request being answered and its reply until the reply    *)
(* has been sent (ReplySent).  `calls' holds the requests that are being   *)
(* served side by side, each at its own place in its handler.              *)
(***************************************************************************)
EXTENDS Integers, Sequences, FiniteSets, TLC

VARIABLES users, trips, tripMembers, tripDays, itineraryItems, req, resp,
          calls

vars ==
    <<users, trips, tripMembers, tripDays, itineraryItems, req, resp, calls>>

(***************************************************************************)
(* Bounds of the model.                                                    *)
(***************************************************************************)
MaxTrips == 1
MaxDays == 1
MaxMembers == 2
MaxItems == 2

(***************************************************************************)
(* Values of the wire format.                                              *)
(***************************************************************************)
\* The ids a request can name; a User row exists for an id only once its
\* owner has made an authenticated request.
UserIds == {"u1", "u2", "u3"}

\* A string-typed body field that is not there.
UNDEF == "<undefined>"

\* !x of a string-typed field.
Falsy(s) == s \in {UNDEF, ""}

\* Date strings of a body: an ISO instant, text that is no date, or nothing.
Iso(t) == [kind |-> "iso", t |-> t]
JunkDate == [kind |-> "junk", t |-> 0]
NoDate == [kind |-> "undefined", t |-> 0]

\* !x of a date-string field.
FalsyDate(s) == s.kind \in {"undefined", "empty"}

\* new Date(s): the instant, or an Invalid Date (its getTime() is NaN).
NewDate(s) ==
    IF s.kind = "iso" THEN [valid |-> TRUE, time |-> s.t]
    ELSE [valid |-> FALSE, time |-> 0]

\* isNaN(d.getTime())
IsNaNTime(d) == ~d.valid

\* 1000 * 60 * 60 * 24 milliseconds, in ticks.
TicksPerDay == 2

Range(s) == {s[i] : i \in 1..Len(s)}

(***************************************************************************)
(* Replies.                                                                *)
(***************************************************************************)
Reply(status, error, message, args, body) ==
    [status |-> status, error |-> error, message |-> message,
     args |-> args, body |-> body]

BadRequest(message) == Reply(400, "Bad Request", message, <<>>, <<>>)

NotFound ==
    Reply(404, "Not Found", "Trip not found or you don't have access to it",
          <<>>, <<>>)

InternalError(message) ==
    Reply(500, "Internal Server Error", message, <<>>, <<>>)

MsgTripMissing == "Missing required fields: name, startDate, endDate, members"
MsgTripDate == "Invalid date format. Use ISO date strings."
MsgTripRange == "startDate must be before endDate"
MsgTripMembers == "members must be a non-empty array of userIds"
MsgTripUsers == "Invalid user IDs: "

(***************************************************************************)
(* The store.                                                              *)
(***************************************************************************)
Tables(tr, tm, td, it) ==
    [trips |-> tr, tripMembers |-> tm, tripDays |-> td, itineraryItems |-> it]

Store == Tables(trips, tripMembers, tripDays, itineraryItems)

\* prisma.$transaction: the writes made inside it are kept when its callback
\* returns and undone when it throws.
TransactionKeepsWrites(before, work, failed) == work

Transaction(before, work, failed) == IF failed THEN before ELSE work

\* The TripMember rows of trip t.
RowsOfTrip(tm, t) == SelectSeq(tm, LAMBDA r : r.tripId = t)

\* authMiddleware with a token that verifies: the caller's User row is
\* upserted before the route's handler runs.
Upsert(us, caller) == us \cup {caller}

\* What a store call throws when it fails: the error's name and code.
StoreError(name, code) == [name |-> name, code |-> code]

NoError == StoreError("", "")

StoreErrors ==
    {StoreError("Error", "ECONNREFUSED"),
     StoreError("PrismaClientInitializationError", "P1001"),
     StoreError("PrismaClientKnownRequestError", "P2002"),
     StoreError("PrismaClientUnknownRequestError", "")}

\* The errors a request meets whose store fails at call `fault' (0: none).
ErrorsAt(fault) == IF fault = 0 THEN {NoError} ELSE StoreErrors

\* request.headers.authorization: absent, or a scheme and a token; `uid' is
\* the user the token is for and `verifies' what verifyIdToken makes of it.
Header(scheme, uid, verifies) ==
    [scheme |-> scheme, uid |-> uid, verifies |-> verifies]

NoHeader == Header("", "", FALSE)

\* The header of a caller whose token verifies.
Bearer(uid) == Header("Bearer ", uid, TRUE)

\* A request as the service sees it: the route, the Authorization header and
\* the user it resolves to, the route's inputs, the store call of the route's
\* handler that fails (0: none), the error of the store call that fails (of
\* the handler, or the upsert of authMiddleware) and the instant the handler
\* reads off the clock.
Request(op, header, userId, tripId, body, fault, error, at) ==
    [op |-> op, auth |-> header, userId |-> userId, tripId |-> tripId,
     body |-> body, fault |-> fault, error |-> error, at |-> at]

(***************************************************************************)
(* authMiddleware, and GET /api/auth/me.                                   *)
(***************************************************************************)
NoReply == Reply(0, "", "", <<>>, <<>>)

\* !authHeader || !authHeader.startsWith("Bearer ")
HeaderRefused(header) == header.scheme # "Bearer "

isConnectionError(error) ==
    \/ error.code = "ECONNREFUSED"
    \/ error.name = "PrismaClientInitializationError"
    \/ error.name = "PrismaClientKnownRequestError"

authMiddlewareUpsertFirst(us, header, error) ==
    IF HeaderRefused(header)
    THEN [reply |-> Reply(401,
                          "Unauthorized: Missing or invalid authorization header",
                          "Please provide a valid Bearer token in the Authorization header",
                          <<>>, <<>>),
          users |-> us, user |-> ""]
    ELSE IF ~header.verifies
    THEN [reply |-> Reply(401, "Unauthorized: Invalid token", "Invalid token",
                          <<>>, <<>>),
          users |-> Upsert(us, header.uid), user |-> ""]
    ELSE [reply |-> NoReply, users |-> Upsert(us, header.uid),
          user |-> header.uid]

\* The pre-handler of every protected route: the reply it sends, if it sends
\* one (the route's handler does not run then), the User table it leaves and
\* the user it attaches to the request.  `error' is what the upsert throws,
\* NoError when it returns.
authMiddleware(us, header, error) ==
    IF HeaderRefused(header)
    THEN [reply |-> Reply(401,
                          "Unauthorized: Missing or invalid authorization header",
                          "Please provide a valid Bearer token in the Authorization header",
                          <<>>, <<>>),
          users |-> us, user |-> ""]
    ELSE IF ~header.verifies
    THEN [reply |-> Reply(401, "Unauthorized: Invalid token", "Invalid token",
                          <<>>, <<>>),
          users |-> us, user |-> ""]
    ELSE IF error # NoError
    THEN [reply |->
             IF isConnectionError(error)
             THEN Reply(503, "Service Unavailable",
                        "Database connection failed. Please check if the database is running and DATABASE_URL is configured correctly.",
                        <<>>, <<>>)
             ELSE InternalError("An error occurred while processing your request"),
          users |-> us, user |-> ""]
    ELSE [reply |-> NoReply, users |-> Upsert(us, header.uid),
          user |-> header.uid]

\* A request to route `op' that authMiddleware answers itself.
Stopped(op, header, error) ==
    /\ req.op = "none"
    /\ \E auth \in {authMiddleware(users, header, error)} :
          /\ auth.reply # NoReply
          /\ users' = auth.users
          /\ req' = Request(op, header, auth.user, 0, <<>>, 0, error, 0)
          /\ resp' = auth.reply
    /\ UNCHANGED <<trips, tripMembers, tripDays, itineraryItems, calls>>

\* GET /api/auth/me with a token that verifies.
Me(userId) ==
    /\ req.op = "none"
    /\ users' = Upsert(users, userId)
    /\ req' = Request("me", Bearer(userId), userId, 0, <<>>, 0, NoError, 0)
    /\ resp' = Reply(200, "", "", <<>>, <<[user |-> [id |-> userId]]>>)
    /\ UNCHANGED <<trips, tripMembers, tripDays, itineraryItems, calls>>

(***************************************************************************)
(* POST /api/trips                                                         *)
(***************************************************************************)
\* Array.from(new Set(s)): the first occurrence of every element, in order.
RECURSIVE ArrayFromSet(_)
ArrayFromSet(s) ==
    IF s = <<>> THEN <<>>
    ELSE LET front == ArrayFromSet(SubSeq(s, 1, Len(s) - 1))
             last == s[Len(s)]
         IN  IF last \in Range(front) THEN front ELSE Append(front, last)

uniqueMembersNoCreator(userId, members) == ArrayFromSet(members)

uniqueMembers(userId, members) == ArrayFromSet(<<userId>> \o members)

invalidUserIdsFirstOnly(us, unique) ==
    LET bad == SelectSeq(unique, LAMBDA id : id \notin us)
    IN  IF bad = <<>> THEN bad ELSE <<bad[1]>>

\* uniqueMembers.filter((id) => !foundUserIds.has(id))
invalidUserIds(us, unique) == SelectSeq(unique, LAMBDA id : id \notin us)

MemberRoleAllEditor(memberId, userId) == "EDITOR"

\* memberId === userId ? "OWNER" : "EDITOR"
MemberRole(memberId, userId) == IF memberId = userId THEN "OWNER" ELSE "EDITOR"

\* The TripMember rows of the nested create, in the order of uniqueMembers.
MemberRows(unique, userId, tripId) ==
    [i \in 1..Len(unique) |->
        [userId |-> unique[i], tripId |-> tripId,
         role |-> MemberRole(unique[i], userId)]]

\* TripMember_userId_tripId_key and TripMember_userId_fkey.
MemberInsertOk(tm, us, row) ==
    /\ row.userId \in us
    /\ \A i \in 1..Len(tm) :
          ~(tm[i].userId = row.userId /\ tm[i].tripId = row.tripId)

\* The position of the first insert of the transaction that fails (1 is the
\* Trip row, 1 + i the i-th TripMember row), 0 when none does.  `fault' is
\* the insert at which the store itself fails, 0 for never.
TripFirstFailure(tm, us, rows, fault) ==
    LET fails(k) ==
            \/ k = fault
            \/ /\ k > 1
               /\ ~MemberInsertOk(tm \o SubSeq(rows, 1, k - 2), us, rows[k - 1])
        bad == {k \in 1..(Len(rows) + 1) : fails(k)}
    IN  IF bad = {} THEN 0 ELSE CHOOSE k \in bad : \A j \in bad : k <= j

\* The validation of the body, in the order of the handler; "" when it passes.
TripStartNotAfterEnd(start, end) == start.time > end.time

\* start >= end
TripRangeInvalid(start, end) == start.time >= end.time

TripValidationMembersFirst(body) ==
    LET start == NewDate(body.startDate)
        end == NewDate(body.endDate)
    IN  IF Falsy(body.name) \/ FalsyDate(body.startDate)
           \/ FalsyDate(body.endDate) \/ body.members.kind = "undefined"
        THEN MsgTripMissing
        ELSE IF body.members.kind # "array" \/ Len(body.members.ids) = 0
        THEN MsgTripMembers
        ELSE IF IsNaNTime(start) \/ IsNaNTime(end) THEN MsgTripDate
        ELSE IF TripRangeInvalid(start, end) THEN MsgTripRange
        ELSE ""

TripValidation(body) ==
    LET start == NewDate(body.startDate)
        end == NewDate(body.endDate)
    IN  IF Falsy(body.name) \/ FalsyDate(body.startDate)
           \/ FalsyDate(body.endDate) \/ body.members.kind = "undefined"
        THEN MsgTripMissing
        ELSE IF IsNaNTime(start) \/ IsNaNTime(end) THEN MsgTripDate
        ELSE IF TripRangeInvalid(start, end) THEN MsgTripRange
        ELSE IF body.members.kind # "array" \/ Len(body.members.ids) = 0
        THEN MsgTripMembers
        ELSE ""

\* budget of the body: absent, null or a number (in the currency's units).
NoBudget == [kind |-> "undefined", n |-> 0]
NullBudget == [kind |-> "null", n |-> 0]
Budget(n) == [kind |-> "number", n |-> n]

\* budget ?? null: the value of the body unless it is undefined or null.
\* No line of the handler looks at its sign.
BudgetOrNull(budget) ==
    IF budget.kind \in {"undefined", "null"} THEN NullBudget ELSE budget

\* The handler after authMiddleware: the reply and the tables it leaves.
\* `us' is the User table as the handler finds it, `db' the other tables.
\* `at' is the instant the store stamps the Trip row with (createdAt).
CreateTripHandler(us, db, userId, body, fault, at) ==
    LET invalid == TripValidation(body)
        unique == uniqueMembers(userId, body.members.ids)
        unknown == invalidUserIds(us, unique)
        tripId == Len(db.trips) + 1
        start == NewDate(body.startDate)
        end == NewDate(body.endDate)
        tripRow == [id |-> tripId, startDate |-> start.time,
                    endDate |-> end.time,
                    budget |-> BudgetOrNull(body.budget), createdAt |-> at]
        rows == MemberRows(unique, userId, tripId)
        firstFail == TripFirstFailure(db.tripMembers, us, rows, fault)
        written == IF firstFail = 0 THEN Len(rows) + 1 ELSE firstFail - 1
        work == [db EXCEPT
                   !.trips = IF written >= 1 THEN Append(@, tripRow) ELSE @,
                   !.tripMembers = @ \o SubSeq(rows, 1, written - 1)]
        after == Transaction(db, work, firstFail # 0)
    IN  IF invalid # "" THEN [reply |-> BadRequest(invalid), db |-> db]
        ELSE IF unknown # <<>>
        THEN [reply |-> Reply(400, "Bad Request", MsgTripUsers, unknown, <<>>),
              db |-> db]
        ELSE IF firstFail # 0
        THEN [reply |-> InternalError("Failed to create trip"), db |-> after]
        ELSE [reply |->
                Reply(201, "", "", <<>>,
                      <<[id |-> tripId, startDate |-> tripRow.startDate,
                         endDate |-> tripRow.endDate,
                         members |->
                            [i \in 1..Len(rows) |->
                                [userId |-> rows[i].userId,
                                 role |-> rows[i].role]]]>>),
              db |-> after]

\* "createdAt" TIMESTAMP(3) NOT NULL DEFAULT CURRENT_TIMESTAMP: the instant
\* of the insert, which is that of the last insert or a later one.
CreationInstants(tr) ==
    IF tr = <<>> THEN {1}
    ELSE {tr[Len(tr)].createdAt, tr[Len(tr)].createdAt + 1}

\* `max' is the number of trips the model lets the table hold.
CreateTrip(userId, body, fault, error, at, max) ==
    /\ req.op = "none"
    /\ \E out \in {CreateTripHandler(Upsert(users, userId), Store, userId,
                                      body, fault, at)} :
          /\ Len(out.db.trips) <= max
          /\ users' = Upsert(users, userId)
          /\ trips' = out.db.trips
          /\ tripMembers' = out.db.tripMembers
          /\ tripDays' = out.db.tripDays
          /\ itineraryItems' = out.db.itineraryItems
          /\ req' = Request("createTrip", Bearer(userId), userId, 0, body,
                            fault, error, at)
          /\ resp' = out.reply
    /\ UNCHANGED calls

(***************************************************************************)
(* Reads of the store.                                                     *)
(***************************************************************************)
FindTripAnyCaller(db, userId, tripId) ==
    SelectSeq(db.trips, LAMBDA t : t.id = tripId)

\* prisma.trip.findFirst({where: {id: tripId, members: {some: {userId}}}}):
\* the Trip row, or nothing (null).
FindTripForMember(db, userId, tripId) ==
    SelectSeq(db.trips,
              LAMBDA t :
                 /\ t.id = tripId
                 /\ \E i \in 1..Len(db.tripMembers) :
                       /\ db.tripMembers[i].tripId = tripId
                       /\ db.tripMembers[i].userId = userId)

OrderByInsertion(rows, keys) == {rows}

Orderings(n) ==
    {p \in [1..n -> 1..n] : \A i, j \in 1..n : p[i] = p[j] => i = j}

\* orderBy: {key: "asc"}: the rows in an order that ascends in the key
\* (keys[i] is the key of rows[i]); the store chooses the order of rows
\* with equal keys.
OrderByAsc(rows, keys) ==
    {[i \in 1..Len(rows) |-> rows[p[i]]] :
        p \in {q \in Orderings(Len(rows)) :
                 \A i, j \in 1..Len(rows) :
                    i < j => keys[q[i]] <= keys[q[j]]}}

\* orderBy: {order: "asc"}
OrderOf(items) == [i \in 1..Len(items) |-> items[i].order.n]

\* orderBy: {dayNumber: "asc"}
DayNumberOf(days) == [i \in 1..Len(days) |-> days[i].dayNumber]

ItemsOfDay(db, dayId) ==
    SelectSeq(db.itineraryItems, LAMBDA it : it.dayId = dayId)

\* The orders in which the store can return the items of a day.
ItemListings(db, dayId) ==
    OrderByAsc(ItemsOfDay(db, dayId), OrderOf(ItemsOfDay(db, dayId)))

DaysOfTrip(db, tripId) == SelectSeq(db.tripDays, LAMBDA d : d.tripId = tripId)

(***************************************************************************)
(* GET /api/trips/:tripId                                                  *)
(***************************************************************************)
\* The replies the handler can give after authMiddleware: one for each order
\* the store may return the days and each day's items in.
\* No route writes the Destination table: a trip has no destinations and a
\* day's destinationId is null.
GetTripReplies(db, userId, tripId) ==
    LET trip == FindTripForMember(db, userId, tripId)
        days == DaysOfTrip(db, tripId)
        dayIds == {days[i].id : i \in 1..Len(days)}
        listings ==
            {f \in [dayIds -> UNION {ItemListings(db, d) : d \in dayIds}] :
                \A d \in dayIds : f[d] \in ItemListings(db, d)}
        members == RowsOfTrip(db.tripMembers, tripId)
    IN  IF trip = <<>> THEN {NotFound}
        ELSE {Reply(200, "", "", <<>>,
                    <<[id |-> trip[1].id, startDate |-> trip[1].startDate,
                       endDate |-> trip[1].endDate,
                       members |->
                          [i \in 1..Len(members) |->
                              [id |-> members[i].userId,
                               role |-> members[i].role]],
                       destinations |-> <<>>,
                       days |->
                          [i \in 1..Len(ordered) |->
                              [id |-> ordered[i].id, date |-> ordered[i].date,
                               dayNumber |-> ordered[i].dayNumber,
                               destination |-> "null",
                               items |-> f[ordered[i].id]]]]>>) :
                 ordered \in OrderByAsc(days, DayNumberOf(days)),
                 f \in listings}

\* The handler after authMiddleware: what the try block replies, or the
\* reply of its catch when the findFirst fails (fault = 1).
GetTripHandler(db, userId, tripId, fault) ==
    IF fault # 0 THEN {InternalError("Failed to fetch trip details")}
    ELSE GetTripReplies(db, userId, tripId)

GetTrip(userId, tripId, fault, error) ==
    /\ req.op = "none"
    /\ \E reply \in GetTripHandler(Store, userId, tripId, fault) :
          /\ users' = Upsert(users, userId)
          /\ req' = Request("getTrip", Bearer(userId), userId, tripId, <<>>,
                            fault, error, 0)
          /\ resp' = reply
    /\ UNCHANGED <<trips, tripMembers, tripDays, itineraryItems, calls>>

(***************************************************************************)
(* GET /api/trips                                                          *)
(***************************************************************************)
\* A JavaScript number: an integer, or NaN.
Num(n) == [nan |-> FALSE, n |-> n]
NaN == [nan |-> TRUE, n |-> 0]

\* A value of the query string: absent, empty, the decimal text of an
\* integer (signed or not), or text that does not start with a number.
Absent == [kind |-> "undefined", n |-> 0]
EmptyText == [kind |-> "empty", n |-> 0]
Digits(n) == [kind |-> "digits", n |-> n]
Letters == [kind |-> "letters", n |-> 0]

\* q || "d"
OrDefault(q, d) == IF q.kind \in {"undefined", "empty"} THEN Digits(d) ELSE q

\* parseInt(q, 10)
ParseInt(q) == IF q.kind = "digits" THEN Num(q.n) ELSE NaN

\* Math.max(a, x) and Math.min(a, x) of an integer a: NaN when x is NaN.
MathMax(a, x) == IF x.nan THEN NaN ELSE Num(IF x.n > a THEN x.n ELSE a)
MathMin(a, x) == IF x.nan THEN NaN ELSE Num(IF x.n < a THEN x.n ELSE a)

\* const page = Math.max(1, parseInt(request.query.page || "1", 10))
page(query) == MathMax(1, ParseInt(OrDefault(query.page, 1)))

\* const limit = Math.min(100, Math.max(1, parseInt(... || "20", 10)))
limit(query) == MathMin(100, MathMax(1, ParseInt(OrDefault(query.limit, 20))))

\* const skip = (page - 1) * limit
skip(p, l) == IF p.nan \/ l.nan THEN NaN ELSE Num((p.n - 1) * l.n)

dateFilterOngoingOpen(status, now, trip) ==
    CASE status = "upcoming" -> trip.startDate > now
      [] status = "ongoing" -> trip.startDate < now /\ trip.endDate > now
      [] status = "past" -> trip.endDate < now
      [] OTHER -> TRUE

\* The switch over request.query.status, as a condition on the trip.
dateFilter(status, now, trip) ==
    CASE status = "upcoming" -> trip.startDate > now
      [] status = "ongoing" -> trip.startDate <= now /\ trip.endDate >= now
      [] status = "past" -> trip.endDate < now
      [] OTHER -> TRUE

\* The Trip row a TripMember row refers to (TripMember_tripId_fkey).
TripOfMember(db, member) == db.trips[member.tripId]

whereClauseAnyUser(db, userId, status, now) ==
    SelectSeq(db.tripMembers,
              LAMBDA m : dateFilter(status, now, TripOfMember(db, m)))

\* The TripMember rows that whereClause selects.
whereClause(db, userId, status, now) ==
    SelectSeq(db.tripMembers,
              LAMBDA m : /\ m.userId = userId
                         /\ dateFilter(status, now, TripOfMember(db, m)))

totalCountAnyStatus(db, userId, status, now) ==
    Len(whereClause(db, userId, UNDEF, now))

\* prisma.tripMember.count({where: whereClause})
totalCount(db, userId, status, now) == Len(whereClause(db, userId, status, now))

\* orderBy: {trip: {createdAt: "desc"}}
CreatedAtDesc(db, members) ==
    [i \in 1..Len(members) |-> 0 - TripOfMember(db, members[i]).createdAt]

\* skip, take: the rows of `ordered' after the first `s', `l' of them at most.
SkipTake(ordered, s, l) ==
    SubSeq(ordered, s + 1, IF s + l < Len(ordered) THEN s + l ELSE Len(ordered))

\* tripMembers.map(...): the trip of a selected row with its members.
ListedTrip(db, member) ==
    LET trip == TripOfMember(db, member)
        rows == RowsOfTrip(db.tripMembers, trip.id)
    IN  [id |-> trip.id, startDate |-> trip.startDate,
         endDate |-> trip.endDate,
         members |-> [i \in 1..Len(rows) |-> [id |-> rows[i].userId]]]

totalPagesRoundedDown(count, l) == count \div l

\* Math.ceil(totalCount / limit), of a limit of 1 or more.
totalPages(count, l) == (count + l - 1) \div l

\* What the try block replies once the count has answered `count' and the
\* findMany reads `db': one reply for each order the store may return the
\* selected rows in.
ListTripsRepliesCounted(db, count, userId, query, now) ==
    LET p == page(query).n
        l == limit(query).n
        selected == whereClause(db, userId, query.status, now)
    IN  {Reply(200, "", "", <<>>,
               <<[trips |->
                     [i \in 1..Len(SkipTake(ordered, skip(Num(p), Num(l)).n, l))
                        |-> ListedTrip(db, SkipTake(ordered,
                                                    skip(Num(p), Num(l)).n,
                                                    l)[i])],
                  pagination |->
                     [page |-> p, limit |-> l, totalCount |-> count,
                      totalPages |-> totalPages(count, l),
                      hasNextPage |-> p < totalPages(count, l),
                      hasPreviousPage |-> p > 1]]>>) :
            ordered \in OrderByAsc(selected, CreatedAtDesc(db, selected))}

\* What the try block replies when every store call answers and no write
\* comes between the count and the findMany.
ListTripsReplies(db, userId, query, now) ==
    ListTripsRepliesCounted(db, totalCount(db, userId, query.status, now),
                            userId, query, now)

\* The handler after authMiddleware.  The count (fault = 1) or the findMany
\* (fault = 2) fails, or the findMany is handed a skip or a take that is NaN,
\* which it refuses: the catch replies.
ListTripsHandler(db, userId, query, now, fault) ==
    IF fault # 0 \/ skip(page(query), limit(query)).nan \/ limit(query).nan
    THEN {InternalError("Failed to fetch trips")}
    ELSE ListTripsReplies(db, userId, query, now)

ListTrips(userId, query, now, fault, error) ==
    /\ req.op = "none"
    /\ \E reply \in ListTripsHandler(Store, userId, query, now, fault) :
          /\ users' = Upsert(users, userId)
          /\ req' = Request("listTrips", Bearer(userId), userId, 0, query,
                            fault, error, now)
          /\ resp' = reply
    /\ UNCHANGED <<trips, tripMembers, tripDays, itineraryItems, calls>>

(***************************************************************************)
(* POST /api/trips/:tripId/days                                            *)
(***************************************************************************)
MsgDayMissing == "Missing required fields: date, itineraryItems"
MsgDayDate == "Invalid date format. Use ISO date string."
MsgDayItems == "itineraryItems must be an array"
MsgDayRange == "Day date must be within the trip's date range"
MsgItemFields == "Each itinerary item must have: type, title, and order"
MsgItemType == "Invalid itinerary type: "
MsgItemStart == "Invalid startTime format in itinerary item"
MsgItemEnd == "Invalid endTime format in itinerary item"

\* CREATE TYPE "ItineraryType"
ItineraryTypes == {"TRAVEL", "STAY", "ACTIVITY", "FOOD", "NOTE"}

\* The body of the loop over itineraryItems: the reply it returns for the
\* item, if it returns one.
ItemCheck(item) ==
    IF Falsy(item.type) \/ Falsy(item.title) \/ item.order.kind = "undefined"
    THEN <<BadRequest(MsgItemFields)>>
    ELSE IF item.type \notin ItineraryTypes
    THEN <<Reply(400, "Bad Request", MsgItemType, <<item.type>>, <<>>)>>
    ELSE IF ~FalsyDate(item.startTime) /\ IsNaNTime(NewDate(item.startTime))
    THEN <<BadRequest(MsgItemStart)>>
    ELSE IF ~FalsyDate(item.endTime) /\ IsNaNTime(NewDate(item.endTime))
    THEN <<BadRequest(MsgItemEnd)>>
    ELSE <<>>

\* for (const item of itineraryItems): the reply of the first item that
\* returns one.
ItemsCheck(items) ==
    LET bad == {i \in 1..Len(items) : ItemCheck(items[i]) # <<>>}
    IN  IF bad = {} THEN <<>>
        ELSE ItemCheck(items[CHOOSE i \in bad : \A j \in bad : i <= j])

\* The checks made of the body before the trip is looked up; "" when they
\* pass.
DayValidation(body) ==
    IF FalsyDate(body.date) \/ body.itineraryItems.kind = "undefined"
    THEN MsgDayMissing
    ELSE IF IsNaNTime(NewDate(body.date)) THEN MsgDayDate
    ELSE IF body.itineraryItems.kind # "array" THEN MsgDayItems
    ELSE ""

DayOutOfRangeBeforeStart(dayDate, trip) ==
    dayDate.time < trip.startDate

DayOutOfRangeAfterEnd(dayDate, trip) ==
    dayDate.time > trip.endDate

DayOutOfRangeExclusive(dayDate, trip) ==
    dayDate.time <= trip.startDate \/ dayDate.time >= trip.endDate

\* dayDate < trip.startDate || dayDate > trip.endDate
DayOutOfRange(dayDate, trip) ==
    dayDate.time < trip.startDate \/ dayDate.time > trip.endDate

dayNumberZeroBased(dayDate, trip) ==
    (dayDate.time - trip.startDate) \div TicksPerDay

\* Math.floor((dayDate.getTime() - trip.startDate.getTime()) / day) + 1
dayNumber(dayDate, trip) ==
    ((dayDate.time - trip.startDate) \div TicksPerDay) + 1

NullTime == [null |-> TRUE, time |-> 0]

\* item.startTime ? new Date(item.startTime) : null
TimeOrNull(s) ==
    IF FalsyDate(s) THEN NullTime ELSE [null |-> FALSE, time |-> NewDate(s).time]

\* The ItineraryItem rows of the nested create, in the order of the body.
ItemRows(items, dayId, firstId) ==
    [i \in 1..Len(items) |->
        [id |-> firstId + i - 1, dayId |-> dayId, type |-> items[i].type,
         title |-> items[i].title, order |-> items[i].order,
         startTime |-> TimeOrNull(items[i].startTime),
         endTime |-> TimeOrNull(items[i].endTime)]]

\* "order" INTEGER NOT NULL
ItemInsertOk(row) == row.order.kind = "number"

DayInsertOkOncePerDate(td, row) ==
    \A i \in 1..Len(td) :
        ~(td[i].tripId = row.tripId /\ td[i].date = row.date)

\* CREATE TABLE "TripDay": its only key is the id, which is new; no other
\* row of the table stands in the way of the insert.
DayInsertOk(td, row) == \A i \in 1..Len(td) : td[i].id # row.id

\* The position of the first insert of the transaction that fails (1 is the
\* TripDay row, 1 + i the i-th ItineraryItem row), 0 when none does.
DayFirstFailure(td, dayRow, rows, fault) ==
    LET bad == {k \in 1..(Len(rows) + 1) :
                  \/ k = fault
                  \/ k = 1 /\ ~DayInsertOk(td, dayRow)
                  \/ k > 1 /\ ~ItemInsertOk(rows[k - 1])}
    IN  IF bad = {} THEN 0 ELSE CHOOSE k \in bad : \A j \in bad : k <= j

\* The handler after authMiddleware: the reply and the tables it leaves.
\* `listing' is the order in which the store returns the new day's items.
\* `found' is what the findFirst returned, `db' the tables at the
\* transaction.
CreateDayFrom(db, found, tripId, body, fault, listing) ==
    LET invalid == DayValidation(body)
        dayDate == NewDate(body.date)
        trip == found[1]
        items == body.itineraryItems.items
        refused == ItemsCheck(items)
        dayId == Len(db.tripDays) + 1
        dayRow == [id |-> dayId, tripId |-> tripId, date |-> dayDate.time,
                   dayNumber |-> dayNumber(dayDate, trip)]
        rows == ItemRows(items, dayId, Len(db.itineraryItems) + 1)
        firstFail == DayFirstFailure(db.tripDays, dayRow, rows, fault)
        written == IF firstFail = 0 THEN Len(rows) + 1 ELSE firstFail - 1
        work == [db EXCEPT
                   !.tripDays = IF written >= 1 THEN Append(@, dayRow) ELSE @,
                   !.itineraryItems = @ \o SubSeq(rows, 1, written - 1)]
        after == Transaction(db, work, firstFail # 0)
    IN  IF invalid # "" THEN [reply |-> BadRequest(invalid), db |-> db]
        ELSE IF found = <<>> THEN [reply |-> NotFound, db |-> db]
        ELSE IF DayOutOfRange(dayDate, trip)
        THEN [reply |-> BadRequest(MsgDayRange), db |-> db]
        ELSE IF refused # <<>> THEN [reply |-> refused[1], db |-> db]
        ELSE IF firstFail # 0
        THEN [reply |-> InternalError("Failed to create trip day"),
              db |-> after]
        ELSE [reply |->
                Reply(201, "", "", <<>>,
                      <<[id |-> dayId, date |-> dayRow.date,
                         dayNumber |-> dayRow.dayNumber, tripId |-> tripId,
                         items |-> listing]>>),
              db |-> after]

CreateDayHandler(db, userId, tripId, body, fault, listing) ==
    CreateDayFrom(db, FindTripForMember(db, userId, tripId), tripId, body,
                  fault, listing)

\* The orders in which the store can return the items of the body as rows
\* of a new day, under include: {items: {orderBy: {order: "asc"}}}.
DayListings(db, body) ==
    IF body.itineraryItems.kind = "array"
       /\ \A i \in 1..Len(body.itineraryItems.items) :
              body.itineraryItems.items[i].order.kind = "number"
    THEN LET rows == ItemRows(body.itineraryItems.items,
                              Len(db.tripDays) + 1,
                              Len(db.itineraryItems) + 1)
         IN  OrderByAsc(rows, OrderOf(rows))
    ELSE {<<>>}

\* `max' is the number of days the model lets the table hold.
CreateDay(userId, tripId, body, fault, error, max) ==
    /\ req.op = "none"
    /\ \E listing \in DayListings(Store, body) :
        \E out \in {CreateDayHandler(Store, userId, tripId, body, fault,
                                     listing)} :
          /\ Len(out.db.tripDays) <= max
          /\ users' = Upsert(users, userId)
          /\ tripDays' = out.db.tripDays
          /\ itineraryItems' = out.db.itineraryItems
          /\ req' = Request("createDay", Bearer(userId), userId, tripId,
                            body, fault, error, 0)
          /\ resp' = out.reply
    /\ UNCHANGED <<trips, tripMembers, calls>>

(***************************************************************************)
(* Requests.                                                               *)
(***************************************************************************)
\* The instants a trip's body names, and those a day's body names: before
\* the trip, its first instant, half a day into it, its last instant (four
\* days after the first), after it.
TripInstants == {2, 10}
DayInstants == {1, 2, 3, 10, 11}

Names == {UNDEF, "", "Trip"}

SeqsUpTo(S, n) == UNION {[1..k -> S] : k \in 0..n}

MembersFields ==
    {[kind |-> "undefined", ids |-> <<>>], [kind |-> "string", ids |-> <<>>]}
    \cup {[kind |-> "array", ids |-> m] : m \in SeqsUpTo(UserIds, MaxMembers)}

TripDates == {NoDate, JunkDate} \cup {Iso(t) : t \in TripInstants}

CreateTripBodies ==
    [name : Names, startDate : TripDates, endDate : TripDates,
     budget : {NoBudget}, members : MembersFields]

\* The store fails at no insert (0), or at one of those the transaction of
\* the request makes, if the handler gets as far as the transaction: the
\* Trip row and one TripMember row for each id of uniqueMembers.
TripFaults(us, db, userId, body) ==
    IF CreateTripHandler(us, db, userId, body, 0, 0).reply.status = 201
    THEN 0..(1 + Len(uniqueMembers(userId, body.members.ids)))
    ELSE {0}

NoRequest == Request("none", NoHeader, "", 0, <<>>, 0, NoError, 0)

\* No request is being served side by side with another.
NoCalls == <<>>

Init ==
    /\ users = {}
    /\ trips = <<>>
    /\ tripMembers = <<>>
    /\ tripDays = <<>>
    /\ itineraryItems = <<>>
    /\ req = NoRequest
    /\ resp = NoReply
    /\ calls = NoCalls

\* The reply has gone out: the exchange is over.
ReplySent ==
    /\ req.op # "none"
    /\ req' = NoRequest
    /\ resp' = NoReply
    /\ UNCHANGED <<users, trips, tripMembers, tripDays, itineraryItems, calls>>

\* POST /api/trips with any body.
AnyCreateTrip ==
    /\ req.op = "none"
    /\ \E userId \in UserIds, body \in CreateTripBodies :
          \E fault \in TripFaults(Upsert(users, userId), Store, userId, body) :
              \E error \in ErrorsAt(fault), at \in CreationInstants(trips) :
                  CreateTrip(userId, body, fault, error, at, MaxTrips)

\* The trip route alone, from the empty store.
NextTrip == AnyCreateTrip \/ ReplySent

SpecTrip == Init /\ [][NextTrip]_vars

\* Items of a body: two that pass every check, and one for each way of
\* failing a check of the loop.
Number(n) == [kind |-> "number", n |-> n]
NoOrder == [kind |-> "undefined", n |-> 0]
NullOrder == [kind |-> "null", n |-> 0]

Item(type, title, order, startTime, endTime) ==
    [type |-> type, title |-> title, order |-> order,
     startTime |-> startTime, endTime |-> endTime]

GoodItems ==
    {Item("ACTIVITY", "Museum", Number(2), NoDate, NoDate),
     Item("FOOD", "Lunch", Number(0), Iso(5), Iso(4))}

BadItems ==
    {Item(UNDEF, "Museum", Number(1), NoDate, NoDate),
     Item("HOTEL", "Museum", Number(1), NoDate, NoDate),
     Item("STAY", "", Number(1), NoDate, NoDate),
     Item("STAY", "Inn", NoOrder, NoDate, NoDate),
     Item("STAY", "Inn", NullOrder, NoDate, NoDate),
     Item("NOTE", "Call", Number(1), JunkDate, NoDate)}

ItemsFields(samples) ==
    {[kind |-> "undefined", items |-> <<>>], [kind |-> "string", items |-> <<>>]}
    \cup {[kind |-> "array", items |-> m] : m \in SeqsUpTo(samples, MaxItems)}

DayDates == {NoDate, JunkDate} \cup {Iso(t) : t \in DayInstants}

CreateDayBodies ==
    [date : DayDates, itineraryItems : ItemsFields(GoodItems \cup BadItems)]

\* The trip ids a request can name: those of the trips there can be, and one
\* more.
TripIds == 1..(MaxTrips + 1)

\* The store fails at no insert (0), or at one of those the transaction of
\* the request makes, if the handler gets as far as the transaction: the
\* TripDay row and one ItineraryItem row for each item of the body.
DayFaults(db, userId, tripId, body) ==
    IF CreateDayHandler(db, userId, tripId, body, 0, <<>>).reply.status
          \in {201, 500}
    THEN 0..(1 + Len(body.itineraryItems.items))
    ELSE {0}

\* POST /api/trips/:tripId/days with any body.
AnyCreateDay ==
    /\ req.op = "none"
    /\ \E userId \in UserIds, tripId \in TripIds, body \in CreateDayBodies :
          \E fault \in DayFaults(Store, userId, tripId, body) :
              \E error \in ErrorsAt(fault) :
                  CreateDay(userId, tripId, body, fault, error, MaxDays)

AnyGetTrip ==
    /\ req.op = "none"
    /\ \E userId \in UserIds, tripId \in TripIds, fault \in 0..1 :
          \E error \in ErrorsAt(fault) : GetTrip(userId, tripId, fault, error)

\* The day and read routes, from the store as it is before any trip is
\* created and as it is once u1 has created a trip with u2 (and u3 has made
\* a request of his own).
InitDay ==
    /\ users = UserIds
    /\ \/ trips = <<>> /\ tripMembers = <<>>
       \/ /\ trips = <<[id |-> 1, startDate |-> 2, endDate |-> 10,
                         budget |-> NullBudget, createdAt |-> 1]>>
          /\ tripMembers =
               <<[userId |-> "u1", tripId |-> 1, role |-> "OWNER"],
                 [userId |-> "u2", tripId |-> 1, role |-> "EDITOR"]>>
    /\ tripDays = <<>>
    /\ itineraryItems = <<>>
    /\ req = NoRequest
    /\ resp = NoReply
    /\ calls = NoCalls

NextDay == AnyCreateDay \/ AnyGetTrip \/ ReplySent

SpecDay == InitDay /\ [][NextDay]_vars

\* All the routes from the empty store, with bodies that pass the checks
\* made before the store is read.
SomeCreateTrip ==
    /\ req.op = "none"
    /\ \E userId \in UserIds,
          body \in [name : {"Trip"}, startDate : {Iso(t) : t \in TripInstants},
                    endDate : {Iso(t) : t \in TripInstants},
                    budget : {NoBudget},
                    members : {m \in MembersFields : m.kind = "array"}] :
          \E fault \in TripFaults(Upsert(users, userId), Store, userId, body) :
              \E error \in ErrorsAt(fault), at \in CreationInstants(trips) :
                  CreateTrip(userId, body, fault, error, at, MaxTrips)

SomeCreateDay ==
    /\ req.op = "none"
    /\ \E userId \in UserIds, tripId \in TripIds,
          body \in [date : {Iso(t) : t \in DayInstants},
                    itineraryItems :
                       {m \in ItemsFields(GoodItems) : m.kind = "array"}] :
          \E fault \in DayFaults(Store, userId, tripId, body) :
              \E error \in ErrorsAt(fault) :
                  CreateDay(userId, tripId, body, fault, error, MaxDays)

Next == SomeCreateTrip \/ SomeCreateDay \/ AnyGetTrip \/ ReplySent

Spec == Init /\ [][Next]_vars

\* The listing route, from the empty store, next to createTrip with bodies
\* that pass the checks made before the store is read.  MaxListed is the
\* number of trips the table holds at most.
MaxListed == 2

\* The date ranges of the trips that are listed, and the instants at which
\* they are listed: before, at and after the ends of the ranges.
ListRanges == {<<2, 6>>, <<6, 10>>}
ListNows == {5, 6, 11}

ListCreateTrip ==
    /\ req.op = "none"
    /\ \E userId \in {"u1", "u2"}, range \in ListRanges,
          member \in {"u1", "u2"}, at \in CreationInstants(trips) :
          CreateTrip(userId,
                     [name |-> "Trip", startDate |-> Iso(range[1]),
                      endDate |-> Iso(range[2]), budget |-> NoBudget,
                      members |-> [kind |-> "array", ids |-> <<member>>]],
                     0, NoError, at, MaxListed)

Statuses == {UNDEF, "upcoming", "ongoing", "past"}

ListQueries ==
    [page : {Absent, EmptyText, Digits(0), Digits(2), Letters},
     limit : {Absent, Digits(0), Digits(1), Digits(500), Letters},
     status : Statuses]

\* GET /api/trips with any query, the store answering.
AnyListTrips ==
    /\ req.op = "none"
    /\ \E userId \in UserIds, query \in ListQueries, now \in ListNows :
          ListTrips(userId, query, now, 0, NoError)

NextList == ListCreateTrip \/ AnyListTrips \/ ReplySent

SpecList == Init /\ [][NextList]_vars

\* The read route next to createDay with bodies that pass every check, from
\* the stores of InitDay.  MaxRead is the number of days the table holds at
\* most.
MaxRead == 2

\* The first instant of the trip, one day and four days later.
ReadInstants == {2, 4, 10}

ReadCreateDay ==
    /\ req.op = "none"
    /\ \E userId \in UserIds, tripId \in TripIds,
          body \in [date : {Iso(t) : t \in ReadInstants},
                    itineraryItems :
                       {m \in ItemsFields(GoodItems) : m.kind = "array"}] :
          CreateDay(userId, tripId, body, 0, NoError, MaxRead)

NextRead == ReadCreateDay \/ AnyGetTrip \/ ReplySent

SpecRead == InitDay /\ [][NextRead]_vars

\* Every protected route with every kind of Authorization header, the store
\* failing at any of its calls or at none, from the empty store.
ProtectedRoutes == {"listTrips", "getTrip", "createTrip", "createDay", "me"}

\* No header, a token that verifies under another scheme, a token of a user
\* that does not verify, no token; and the headers that pass.
Headers ==
    {NoHeader, Header("bearer ", "u1", TRUE), Header("Bearer ", "u3", FALSE),
     Header("Bearer ", "", FALSE)}
    \cup {Bearer(u) : u \in UserIds}

AnyStopped ==
    /\ req.op = "none"
    /\ \E op \in ProtectedRoutes, header \in Headers,
          error \in {NoError} \cup StoreErrors :
          Stopped(op, header, error)

AnyMe ==
    /\ req.op = "none"
    /\ \E userId \in UserIds : Me(userId)

AuthListTrips ==
    /\ req.op = "none"
    /\ \E userId \in UserIds, fault \in 0..2 :
          \E error \in ErrorsAt(fault) :
              ListTrips(userId,
                        [page |-> Absent, limit |-> Absent, status |-> UNDEF],
                        5, fault, error)

\* The budgets of the bodies: none, null, zero and one below zero.
Budgets == {NoBudget, NullBudget, Budget(0), Budget(-1)}

AuthCreateTrip ==
    /\ req.op = "none"
    /\ \E userId \in UserIds, member \in {"u1", "u2"}, budget \in Budgets :
          \E body \in {[name |-> "Trip", startDate |-> Iso(2),
                         endDate |-> Iso(10), budget |-> budget,
                         members |-> [kind |-> "array", ids |-> <<member>>]]} :
              \E fault \in TripFaults(Upsert(users, userId), Store, userId,
                                       body) :
                  \E error \in ErrorsAt(fault),
                     at \in CreationInstants(trips) :
                      CreateTrip(userId, body, fault, error, at, MaxTrips)

AuthCreateDay ==
    /\ req.op = "none"
    /\ \E userId \in UserIds, tripId \in TripIds,
          body \in [date : {NoDate, Iso(2)},
                    itineraryItems :
                       {m \in ItemsFields(GoodItems) :
                           m.kind = "array" /\ Len(m.items) <= 1}] :
          \E fault \in DayFaults(Store, userId, tripId, body) :
              \E error \in ErrorsAt(fault) :
                  CreateDay(userId, tripId, body, fault, error, MaxDays)

NextAuth ==
    \/ AnyStopped
    \/ AnyMe
    \/ AuthListTrips
    \/ AnyGetTrip
    \/ AuthCreateTrip
    \/ AuthCreateDay
    \/ ReplySent

SpecAuth == Init /\ [][NextAuth]_vars

\* Two createDay requests served side by side, from the store once u1 has
\* created a trip with u2.  A call is at the place of its handler that comes
\* next: the findFirst ("lookup"), the transaction, or past its reply.
Callers == 1..2

Idle ==
    [pc |-> "idle", userId |-> "", tripId |-> 0, body |-> <<>>,
     found |-> <<>>, reply |-> NoReply]

\* The first instant of the trip, one day later, and an instant after the
\* trip.
SideBySideInstants == {2, 4, 11}

SideBySideBodies ==
    [date : {Iso(t) : t \in SideBySideInstants},
     itineraryItems :
        {m \in ItemsFields(GoodItems) : m.kind = "array" /\ Len(m.items) <= 1}]

InitSideBySide ==
    /\ users = UserIds
    /\ trips = <<[id |-> 1, startDate |-> 2, endDate |-> 10,
                  budget |-> NullBudget, createdAt |-> 1]>>
    /\ tripMembers =
          <<[userId |-> "u1", tripId |-> 1, role |-> "OWNER"],
            [userId |-> "u2", tripId |-> 1, role |-> "EDITOR"]>>
    /\ tripDays = <<>>
    /\ itineraryItems = <<>>
    /\ req = NoRequest
    /\ resp = NoReply
    /\ calls = [p \in Callers |-> Idle]

\* The request arrives: authMiddleware, then the checks of the body.
DayReceived(p) ==
    /\ calls[p].pc = "idle"
    /\ \E userId \in UserIds, tripId \in TripIds, body \in SideBySideBodies :
          /\ users' = Upsert(users, userId)
          /\ calls' =
                [calls EXCEPT ![p] =
                    [pc |-> IF DayValidation(body) = "" THEN "lookup"
                            ELSE "replied",
                     userId |-> userId, tripId |-> tripId, body |-> body,
                     found |-> <<>>,
                     reply |-> IF DayValidation(body) = "" THEN NoReply
                               ELSE BadRequest(DayValidation(body))]]
    /\ UNCHANGED <<trips, tripMembers, tripDays, itineraryItems, req, resp>>

\* await prisma.trip.findFirst, and the checks that follow it up to the
\* transaction, which read nothing of the store.
DayLookup(p) ==
    /\ calls[p].pc = "lookup"
    /\ \E found \in {FindTripForMember(Store, calls[p].userId,
                                        calls[p].tripId)} :
          \E early \in {CreateDayFrom(Store, found, calls[p].tripId,
                                       calls[p].body, 0, <<>>).reply} :
              calls' =
                 [calls EXCEPT ![p] =
                     IF early.status \in {201, 500}
                     THEN [@ EXCEPT !.pc = "transaction", !.found = found]
                     ELSE [@ EXCEPT !.pc = "replied", !.found = found,
                                    !.reply = early]]
    /\ UNCHANGED <<users, trips, tripMembers, tripDays, itineraryItems, req,
                   resp>>

\* await prisma.$transaction, and the reply.
DayTransaction(p) ==
    /\ calls[p].pc = "transaction"
    /\ \E listing \in DayListings(Store, calls[p].body) :
          \E out \in {CreateDayFrom(Store, calls[p].found, calls[p].tripId,
                                     calls[p].body, 0, listing)} :
              /\ tripDays' = out.db.tripDays
              /\ itineraryItems' = out.db.itineraryItems
              /\ calls' = [calls EXCEPT ![p] =
                              [@ EXCEPT !.pc = "replied", !.reply = out.reply]]
    /\ UNCHANGED <<users, trips, tripMembers, req, resp>>

NextSideBySide ==
    \E p \in Callers : DayReceived(p) \/ DayLookup(p) \/ DayTransaction(p)

SpecSideBySide == InitSideBySide /\ [][NextSideBySide]_vars

\* GET /api/trips served while POST /api/trips requests are, from the empty
\* store.  The call of the listing is at the place of its handler that comes
\* next: the count, the findMany, or past its reply.  The handler of POST
\* /api/trips writes in one transaction, which is one step here.
Listers == {1}

ListIdle ==
    [pc |-> "idle", userId |-> "", query |-> <<>>, now |-> 0, count |-> 0,
     reply |-> NoReply]

BesideQueries ==
    [page : {Absent, Digits(2)}, limit : {Absent, Digits(1)},
     status : {UNDEF, "upcoming"}]

InitListBeside ==
    /\ users = {}
    /\ trips = <<>>
    /\ tripMembers = <<>>
    /\ tripDays = <<>>
    /\ itineraryItems = <<>>
    /\ req = NoRequest
    /\ resp = NoReply
    /\ calls = [p \in Listers |-> ListIdle]

\* The request arrives: authMiddleware, then page, limit, skip, now and the
\* where clause, which read nothing of the store.
ListReceived(p) ==
    /\ calls[p].pc = "idle"
    /\ \E userId \in {"u1", "u2"}, query \in BesideQueries, now \in {5} :
          /\ users' = Upsert(users, userId)
          /\ calls' = [calls EXCEPT ![p] =
                          [@ EXCEPT !.pc = "count", !.userId = userId,
                                    !.query = query, !.now = now]]
    /\ UNCHANGED <<trips, tripMembers, tripDays, itineraryItems, req, resp>>

\* const totalCount = await prisma.tripMember.count({where: whereClause})
ListCount(p) ==
    /\ calls[p].pc = "count"
    /\ calls' = [calls EXCEPT ![p] =
                    [@ EXCEPT !.pc = "findMany",
                              !.count = totalCount(Store, calls[p].userId,
                                                   calls[p].query.status,
                                                   calls[p].now)]]
    /\ UNCHANGED <<users, trips, tripMembers, tripDays, itineraryItems, req,
                   resp>>

\* await prisma.tripMember.findMany, and the reply.
ListFindMany(p) ==
    /\ calls[p].pc = "findMany"
    /\ \E reply \in ListTripsRepliesCounted(Store, calls[p].count,
                                             calls[p].userId, calls[p].query,
                                             calls[p].now) :
          calls' = [calls EXCEPT ![p] =
                       [@ EXCEPT !.pc = "replied", !.reply = reply]]
    /\ UNCHANGED <<users, trips, tripMembers, tripDays, itineraryItems, req,
                   resp>>

NextListBeside ==
    \/ ListCreateTrip
    \/ ReplySent
    \/ \E p \in Listers : ListReceived(p) \/ ListCount(p) \/ ListFindMany(p)

SpecListBeside == InitListBeside /\ [][NextListBeside]_vars

(***************************************************************************)
(* Claims about POST /api/trips.                                           *)
(***************************************************************************)
IsCreateTrip(r) == r.op = "createTrip"

\* C1: after a successful createTrip by creator c with members list M, the
\* new trip has exactly one TripMember row for each distinct user of
\* {c} \cup M and no other row; c's row is OWNER, every other row EDITOR,
\* also when c is in M or M repeats an id.
C1_OneRowPerDistinctMember ==
    (IsCreateTrip(req) /\ resp.status = 201) =>
        LET t == resp.body[1].id
            rows == RowsOfTrip(tripMembers, t)
            expected == {req.userId} \cup Range(req.body.members.ids)
        IN  /\ t = Len(trips)
            /\ Len(rows) = Cardinality(expected)
            /\ {rows[i].userId : i \in 1..Len(rows)} = expected
            /\ \A i \in 1..Len(rows) :
                  rows[i].role =
                     IF rows[i].userId = req.userId THEN "OWNER" ELSE "EDITOR"

\* A trip created by a creator who also names himself in members, next to
\* another user.
C1_Witness ==
    /\ IsCreateTrip(req) /\ resp.status = 201
    /\ req.userId \in Range(req.body.members.ids)
    /\ Cardinality(Range(req.body.members.ids)) = 2
    /\ Len(RowsOfTrip(tripMembers, resp.body[1].id)) = 2

\* The required fields are there (as the handler reads them) and both
\* dates parse.
TripFieldsPresentAndDatesParse(body) ==
    /\ ~Falsy(body.name)
    /\ body.members.kind # "undefined"
    /\ body.startDate.kind = "iso"
    /\ body.endDate.kind = "iso"

\* C2: a createTrip whose name, dates and members are present and whose
\* dates parse, with startDate >= endDate (equality included), is answered
\* 400 "startDate must be before endDate" and leaves the Trip and
\* TripMember tables as they were.
C2_InvalidRangeRejected ==
    [][(/\ IsCreateTrip(req')
        /\ TripFieldsPresentAndDatesParse(req'.body)
        /\ req'.body.startDate.t >= req'.body.endDate.t)
       => (/\ resp' = BadRequest(MsgTripRange)
           /\ trips' = trips
           /\ tripMembers' = tripMembers)]_vars

\* startDate = endDate is refused while a trip is already stored.
C2_Witness ==
    /\ IsCreateTrip(req)
    /\ TripFieldsPresentAndDatesParse(req.body)
    /\ req.body.startDate.t = req.body.endDate.t
    /\ resp = BadRequest(MsgTripRange)
    /\ Len(trips) = 1

\* The checks of createTrip a request violates, numbered in the order
\* MissingField, InvalidDate, InvalidRange, InvalidMembers, UnknownUser.
TripViolations(us, userId, body) ==
    LET ids == IF body.members.kind = "array" THEN body.members.ids ELSE <<>>
    IN  {k \in 1..5 :
           \/ k = 1 /\ (\/ Falsy(body.name)
                         \/ body.startDate.kind = "undefined"
                         \/ body.endDate.kind = "undefined"
                         \/ body.members.kind = "undefined")
           \/ k = 2 /\ (body.startDate.kind # "iso"
                         \/ body.endDate.kind # "iso")
           \/ k = 3 /\ body.startDate.kind = "iso"
                     /\ body.endDate.kind = "iso"
                     /\ body.startDate.t >= body.endDate.t
           \/ k = 4 /\ (body.members.kind # "array" \/ ids = <<>>)
           \/ k = 5 /\ \E id \in {userId} \cup Range(ids) : id \notin us}

TripFailureMessages ==
    <<MsgTripMissing, MsgTripDate, MsgTripRange, MsgTripMembers, MsgTripUsers>>

Least(S) == CHOOSE k \in S : \A j \in S : k <= j

\* C8: a createTrip that violates one or more of the five checks is answered
\* with the failure of the earliest violated one in the order MissingField,
\* InvalidDate, InvalidRange, InvalidMembers, UnknownUser, and the five
\* failures have five different messages.
C8_EarliestViolationReported ==
    /\ IsCreateTrip(req) =>
          LET v == TripViolations(users, req.userId, req.body)
          IN  v # {} =>
                 /\ resp.status = 400
                 /\ resp.message = TripFailureMessages[Least(v)]
    /\ Cardinality(Range(TripFailureMessages)) = 5

\* A request with an invalid range, and an unknown member as well.
C8_Witness ==
    /\ IsCreateTrip(req)
    /\ TripViolations(users, req.userId, req.body) = {3, 5}
    /\ resp.message = MsgTripRange

\* C9: when createTrip fails with UnknownUser, the ids the failure names are
\* exactly those of {creator} \cup members that have no User row, and the
\* Trip and TripMember tables are left as they were.
C9_UnknownUserNamesExactly ==
    [][(IsCreateTrip(req') /\ resp'.message = MsgTripUsers)
       => (/\ resp'.status = 400
           /\ Range(resp'.args) =
                 ({req'.userId} \cup Range(req'.body.members.ids)) \ users'
           /\ trips' = trips
           /\ tripMembers' = tripMembers)]_vars

\* UnknownUser for a members list that names an existing user other than
\* the creator and an unknown one, while a trip is already stored.
C9_Witness ==
    /\ IsCreateTrip(req)
    /\ resp.message = MsgTripUsers
    /\ \E id \in Range(req.body.members.ids) :
          id \in users /\ id # req.userId
    /\ Len(trips) = 1

(***************************************************************************)
(* Claims about GET /api/trips/:tripId and POST /api/trips/:tripId/days.   *)
(***************************************************************************)
IsGetTrip(r) == r.op = "getTrip"
IsCreateDay(r) == r.op = "createDay"

TripExists(tripId) == \E i \in 1..Len(trips) : trips[i].id = tripId

HasMembership(userId, tripId) ==
    \E i \in 1..Len(tripMembers) :
        tripMembers[i].userId = userId /\ tripMembers[i].tripId = tripId

\* The store in which no trip exists at all: the one the service starts
\* with.
NoTables == Tables(<<>>, <<>>, <<>>, <<>>)

\* C3: getTrip(u, t) where trip t exists and u has no TripMember row for it
\* is answered 404 (if the store answers at all), with the very reply getTrip(u, t) gets where trip t does
\* not exist; and createDay(u, t, body) gets there the very reply the same
\* body gets where trip t does not exist.
C3_AbsentMembershipLooksLikeAbsentTrip ==
    (TripExists(req.tripId) /\ ~HasMembership(req.userId, req.tripId)) =>
        /\ IsGetTrip(req) =>
              /\ req.fault = 0 => resp.status = 404
              /\ {resp} = GetTripHandler(NoTables, req.userId, req.tripId,
                                         req.fault)
        /\ IsCreateDay(req) =>
              resp = CreateDayHandler(NoTables, req.userId, req.tripId,
                                      req.body, req.fault, <<>>).reply

\* u3 asks for the trip of u1 and u2, which has a day by now.
C3_Witness ==
    /\ IsGetTrip(req)
    /\ TripExists(req.tripId)
    /\ ~HasMembership(req.userId, req.tripId)
    /\ Len(tripDays) = 1
    /\ resp = NotFound

\* C4: createDay checks the caller's membership of tripId before anything
\* else: a createDay by a caller with no membership of tripId is answered
\* NotFound (404) whatever its body is.
C4_MembershipCheckedFirst ==
    (IsCreateDay(req) /\ ~HasMembership(req.userId, req.tripId)) =>
        resp = NotFound

\* An item that passes every check of the loop, as the interface lists them.
ItemWellFormed(item) ==
    /\ item.type \in ItineraryTypes
    /\ ~Falsy(item.title)
    /\ item.order.kind = "number"
    /\ item.startTime.kind \in {"undefined", "iso"}
    /\ item.endTime.kind \in {"undefined", "iso"}

\* A body with a date that parses and an array of well-formed items.
DayBodyWellFormed(body) ==
    /\ body.date.kind = "iso"
    /\ body.itineraryItems.kind = "array"
    /\ \A i \in 1..Len(body.itineraryItems.items) :
          ItemWellFormed(body.itineraryItems.items[i])

\* C5: a createDay by a member with an otherwise valid body is refused with
\* 400 "Day date must be within the trip's date range" exactly when its date
\* is before the trip's startDate or after its endDate (a date equal to
\* either is accepted); a refused request leaves the TripDay and
\* ItineraryItem tables as they were.
C5_OutOfRangeExactlyOutsideTrip ==
    [][(/\ IsCreateDay(req')
        /\ HasMembership(req'.userId, req'.tripId)
        /\ DayBodyWellFormed(req'.body))
       => LET t == trips[req'.tripId]
              outside == \/ req'.body.date.t < t.startDate
                         \/ req'.body.date.t > t.endDate
          IN  /\ (resp' = BadRequest(MsgDayRange)) <=> outside
              /\ outside => /\ tripDays' = tripDays
                            /\ itineraryItems' = itineraryItems
              /\ (~outside /\ req'.fault = 0) => resp'.status = 201]_vars

\* A day after the trip's last instant is refused while a day is stored.
C5_Witness ==
    /\ IsCreateDay(req)
    /\ HasMembership(req.userId, req.tripId)
    /\ DayBodyWellFormed(req.body)
    /\ req.body.date.t > trips[req.tripId].endDate
    /\ resp = BadRequest(MsgDayRange)
    /\ Len(tripDays) = 1

\* C6: every stored TripDay d of trip t has
\* dayNumber = floor((d.date - t.startDate) in whole days) + 1; a day on
\* the trip's startDate has dayNumber 1, a day four days later dayNumber 5.
C6_DayNumberLaw ==
    \A i \in 1..Len(tripDays) :
        LET d == tripDays[i]
            t == trips[d.tripId]
        IN  /\ d.dayNumber = ((d.date - t.startDate) \div TicksPerDay) + 1
            /\ d.date = t.startDate => d.dayNumber = 1
            /\ d.date = t.startDate + 4 * TicksPerDay => d.dayNumber = 5

\* A day four days after the start of its trip is stored.
C6_Witness ==
    \E i \in 1..Len(tripDays) :
        /\ tripDays[i].date = trips[tripDays[i].tripId].startDate + 4 * TicksPerDay
        /\ tripDays[i].dayNumber = 5

\* C7: createTrip and createDay are all-or-nothing: when the store fails at
\* an insert of the transaction of a createTrip (the Trip row, a TripMember
\* row) or of a createDay (the TripDay row, an ItineraryItem row), none of
\* the rows of that request is in the tables afterwards and the reply is a
\* failure (500).
C7_AllOrNothing ==
    [][((IsCreateTrip(req') \/ IsCreateDay(req')) /\ req'.fault # 0)
       => (/\ resp'.status = 500
           /\ trips' = trips
           /\ tripMembers' = tripMembers
           /\ tripDays' = tripDays
           /\ itineraryItems' = itineraryItems)]_vars

\* The store failed at the second item of a createDay, after the TripDay
\* row and the first item had been inserted.
C7_Witness ==
    /\ IsCreateDay(req)
    /\ req.fault = 3
    /\ resp.status = 500
    /\ tripDays = <<>>

\* An item that lacks a type, has a type outside the five, has an empty or
\* missing title, or lacks an order value.
ItemShapeBad(item) ==
    \/ Falsy(item.type)
    \/ item.type \notin ItineraryTypes
    \/ Falsy(item.title)
    \/ item.order.kind # "number"

\* The items of the body a reply can be about: those with the type it
\* quotes, or any of them when it quotes nothing.
ItemsReplyPointsAt(reply, items) ==
    IF reply.message = MsgItemType
    THEN {i \in 1..Len(items) : items[i].type = reply.args[1]}
    ELSE 1..Len(items)

\* C10: a createDay by a member with a date in the trip's range, one of
\* whose items lacks a type, has a type outside the five, has an empty or
\* missing title or lacks an order value, is answered 400 InvalidItem, the
\* reply identifies the offending item, and no TripDay or ItineraryItem row
\* is written.
C10_InvalidItemIdentified ==
    [][(/\ IsCreateDay(req')
        /\ HasMembership(req'.userId, req'.tripId)
        /\ req'.body.date.kind = "iso"
        /\ req'.body.date.t >= trips[req'.tripId].startDate
        /\ req'.body.date.t <= trips[req'.tripId].endDate
        /\ req'.body.itineraryItems.kind = "array"
        /\ \E i \in 1..Len(req'.body.itineraryItems.items) :
              ItemShapeBad(req'.body.itineraryItems.items[i]))
       => LET items == req'.body.itineraryItems.items
              pointed == ItemsReplyPointsAt(resp', items)
          IN  /\ resp'.status = 400
              /\ resp'.message \in {MsgItemFields, MsgItemType}
              /\ Cardinality(pointed) = 1
              /\ \A i \in pointed : ItemShapeBad(items[i])
              /\ tripDays' = tripDays
              /\ itineraryItems' = itineraryItems]_vars

(***************************************************************************)
(* Claims about GET /api/trips.                                            *)
(***************************************************************************)
IsListTrips(r) == r.op = "listTrips"

\* The pagination block of the reply, and the ids of the trips of its page.
Pagination == resp.body[1].pagination

PageIds == [i \in 1..Len(resp.body[1].trips) |-> resp.body[1].trips[i].id]

\* C11: whatever the page and limit parameters are (absent, empty, any
\* integer, text that is no number), listTrips answers with a page >= 1 and
\* a limit in 1..100, which are 1 and 20 for parameters that are absent.
C11_PageAndLimitInRange ==
    IsListTrips(req) =>
        /\ resp.status = 200
        /\ Pagination.page >= 1
        /\ Pagination.limit \in 1..100
        /\ req.body.page.kind = "undefined" => Pagination.page = 1
        /\ req.body.limit.kind = "undefined" => Pagination.limit = 20

\* What a status says of a trip at an instant.
StatusHolds(status, now, trip) ==
    /\ status = "upcoming" => trip.startDate > now
    /\ status = "ongoing" => (trip.startDate <= now /\ now <= trip.endDate)
    /\ status = "past" => trip.endDate < now

\* The trips user u is a member of that have the status at the instant.
TripsOf(u, status, now) ==
    {t \in 1..Len(trips) : HasMembership(u, t) /\ StatusHolds(status, now, trips[t])}

\* The least number of pages of l trips that hold n trips.
PagesFor(n, l) == CHOOSE k \in 0..n : k * l >= n /\ (k - 1) * l < n

\* The orders of the trips of S that run from the newest to the oldest.
NewestFirst(S) ==
    {f \in [1..Cardinality(S) -> S] :
        /\ \A i, j \in 1..Cardinality(S) : f[i] = f[j] => i = j
        /\ \A i, j \in 1..Cardinality(S) :
              i < j => trips[f[i]].createdAt >= trips[f[j]].createdAt}

\* C12: in every listTrips response totalCount is the number of the
\* caller's trips that match the status, totalPages = ceil(totalCount /
\* limit), hasNextPage = (page < totalPages), hasPreviousPage = (page > 1),
\* and the page holds the trips from offset (page - 1) * limit on, limit of
\* them at most, of the matching trips from the newest to the oldest; 45
\* trips in pages of 20 are 3 pages, with a next page after page 1 and none
\* after page 3.
C12_PaginationArithmetic ==
    /\ (IsListTrips(req) /\ resp.status = 200) =>
          LET matching == TripsOf(req.userId, req.body.status, req.at)
              n == Cardinality(matching)
              offset == (Pagination.page - 1) * Pagination.limit
              last == IF offset + Pagination.limit < n
                      THEN offset + Pagination.limit ELSE n
          IN  /\ Pagination.totalCount = n
              /\ Pagination.totalPages = PagesFor(n, Pagination.limit)
              /\ Pagination.hasNextPage
                    = (Pagination.page < Pagination.totalPages)
              /\ Pagination.hasPreviousPage = (Pagination.page > 1)
              /\ Len(PageIds) <= Pagination.limit
              /\ \E f \in NewestFirst(matching) :
                    PageIds = [i \in 1..(IF last > offset THEN last - offset
                                          ELSE 0) |-> f[offset + i]]
    /\ totalPages(45, 20) = 3
    /\ 1 < totalPages(45, 20)
    /\ ~(3 < totalPages(45, 20))

\* The second page of one trip, of two trips.
C12_Witness ==
    /\ IsListTrips(req) /\ resp.status = 200
    /\ Pagination.page = 2 /\ Pagination.limit = 1
    /\ Pagination.totalCount = 2
    /\ Len(PageIds) = 1
    /\ Pagination.hasPreviousPage /\ ~Pagination.hasNextPage

\* The ids of the trips that a listing of user u with the status selects at
\* the instant, over all its pages.
SelectedIds(u, status, now) ==
    {m.tripId : m \in Range(whereClause(Store, u, status, now))}

\* C13: at any instant, the trips listed as upcoming start after it, those
\* listed as ongoing start at or before it and end at or after it, those
\* listed as past end before it; for every caller the three listings have
\* no trip in common and together hold the trips listed without a status,
\* which are the trips the caller is a member of.
C13_StatusPartition ==
    /\ (IsListTrips(req) /\ resp.status = 200) =>
          \A i \in 1..Len(PageIds) :
              StatusHolds(req.body.status, req.at, trips[PageIds[i]])
    /\ \A u \in UserIds, now \in ListNows :
          LET upcoming == SelectedIds(u, "upcoming", now)
              ongoing == SelectedIds(u, "ongoing", now)
              past == SelectedIds(u, "past", now)
          IN  /\ upcoming \cap ongoing = {}
              /\ upcoming \cap past = {}
              /\ ongoing \cap past = {}
              /\ upcoming \cup ongoing \cup past = SelectedIds(u, UNDEF, now)
              /\ SelectedIds(u, UNDEF, now)
                    = {t \in 1..Len(trips) : HasMembership(u, t)}

\* A listing of the ongoing trips at an instant that is the last of one
\* trip and the first of another.
C13_Witness ==
    /\ IsListTrips(req) /\ resp.status = 200
    /\ req.body.status = "ongoing"
    /\ \E i, j \in 1..Len(PageIds) :
          /\ trips[PageIds[i]].endDate = req.at
          /\ trips[PageIds[j]].startDate = req.at

\* C14: every trip of a listTrips response is one the caller has a
\* TripMember row for, and totalCount counts such trips only.
C14_ListsOnlyOwnTrips ==
    (IsListTrips(req) /\ resp.status = 200) =>
        /\ \A i \in 1..Len(PageIds) : HasMembership(req.userId, PageIds[i])
        /\ Pagination.totalCount
              <= Cardinality({t \in 1..Len(trips) :
                                 HasMembership(req.userId, t)})

\* Of two trips the caller is a member of one only, and is shown that one.
C14_Witness ==
    /\ IsListTrips(req) /\ resp.status = 200
    /\ Len(trips) = 2
    /\ Pagination.totalCount = 1
    /\ Len(PageIds) = 1
    /\ \E t \in 1..Len(trips) : ~HasMembership(req.userId, t)

\* C15: the trips of a listing run from the newest to the oldest, trips
\* created at the same instant in the order of their insertion, so that the
\* same query on the same store is answered with the same sequence.
C15_StableNewestFirst ==
    (IsListTrips(req) /\ resp.status = 200) =>
        /\ \A i, j \in 1..Len(PageIds) :
              (i < j /\ trips[PageIds[i]].createdAt = trips[PageIds[j]].createdAt)
                 => PageIds[i] < PageIds[j]
        /\ ListTripsHandler(Store, req.userId, req.body, req.at, req.fault)
              = {resp}

(***************************************************************************)
(* Claims about the order of what is read.                                 *)
(***************************************************************************)
\* The numbers of s never go down.
Ascending(s) == \A i, j \in 1..Len(s) : i < j => s[i] <= s[j]

C17_RepeatedReadIdentical ==
    IsGetTrip(req) =>
        GetTripHandler(Store, req.userId, req.tripId, req.fault) = {resp}

(***************************************************************************)
(* Claims about authentication and store failures.                         *)
(***************************************************************************)
\* The header is there, starts with "Bearer " and its token verifies.
Authenticated(r) == r.auth.scheme = "Bearer " /\ r.auth.verifies

\* C18: a request to a protected route (list, get, create trip, create day,
\* /me) whose Authorization header is absent or does not start with
\* "Bearer ", or whose token does not verify, is answered 401 and leaves
\* every table as it was, the User table included.
C18_UnauthenticatedChangesNothing ==
    [][(req'.op \in ProtectedRoutes /\ ~Authenticated(req'))
       => (/\ resp'.status = 401
           /\ users' = users
           /\ trips' = trips
           /\ tripMembers' = tripMembers
           /\ tripDays' = tripDays
           /\ itineraryItems' = itineraryItems)]_vars

\* A createTrip with the token, which does not verify, of a user that has no
\* User row, when a trip is stored.
C18_Witness ==
    /\ req.op = "createTrip"
    /\ req.auth.scheme = "Bearer " /\ ~req.auth.verifies
    /\ req.auth.uid \in UserIds \ users
    /\ resp.status = 401
    /\ Len(trips) = 1

\* The store could not be reached, or was not initialized.
Connectivity(error) ==
    \/ error.code \in {"ECONNREFUSED", "P1001"}
    \/ error.name = "PrismaClientInitializationError"

\* C19: a request is answered 503 exactly when a store call made for it
\* failed for want of a connection to the store or of its initialization,
\* be it in the resolution of the caller or in the route's handler; a store
\* call that fails otherwise (a constraint violation, say) is answered 500.
C19_UnavailableIffConnectivity ==
    req.op \in ProtectedRoutes =>
        /\ (resp.status = 503) <=> Connectivity(req.error)
        /\ (req.error # NoError /\ ~Connectivity(req.error))
              => resp.status = 500

(***************************************************************************)
(* Claims about requests served side by side.                              *)
(***************************************************************************)
\* Call p is a createDay of a member of its trip with a date in the trip's
\* range (the items of every body here are valid).
MemberDayInRange(p) ==
    /\ calls[p].pc # "idle"
    /\ HasMembership(calls[p].userId, calls[p].tripId)
    /\ calls[p].body.date.t >= trips[calls[p].tripId].startDate
    /\ calls[p].body.date.t <= trips[calls[p].tripId].endDate

\* The TripDay rows with the id.
DaysWithId(id) == {d \in Range(tripDays) : d.id = id}

\* C20: two createDay requests of members of a trip with the same date in
\* its range and valid items, however their steps interleave, are both
\* answered 201, and then two TripDay rows of the trip have that date and
\* the same dayNumber, each with the items of its own request; no step of
\* either request waits for the other request.
C20_SameDateBothSucceed ==
    /\ \A p \in Callers :
          /\ calls[p].pc = "lookup" => ENABLED DayLookup(p)
          /\ calls[p].pc = "transaction" => ENABLED DayTransaction(p)
    /\ \A p, q \in Callers :
          (/\ p # q
           /\ MemberDayInRange(p) /\ MemberDayInRange(q)
           /\ calls[p].tripId = calls[q].tripId
           /\ calls[p].body.date = calls[q].body.date
           /\ calls[p].pc = "replied" /\ calls[q].pc = "replied")
          => /\ calls[p].reply.status = 201 /\ calls[q].reply.status = 201
             /\ calls[p].reply.body[1].id # calls[q].reply.body[1].id
             /\ \A c \in {p, q} :
                   LET got == calls[c].reply.body[1]
                   IN  /\ \E d \in DaysWithId(got.id) :
                             /\ d.tripId = calls[c].tripId
                             /\ d.date = calls[c].body.date.t
                             /\ d.dayNumber = got.dayNumber
                       /\ Cardinality({it \in Range(itineraryItems) :
                                          it.dayId = got.id})
                             = Len(calls[c].body.itineraryItems.items)
             /\ calls[p].reply.body[1].dayNumber
                   = calls[q].reply.body[1].dayNumber
             /\ Len(tripDays) = 2

\* u1 and u2 have each added a day of one item on the second day of their
\* trip, the call that came second having been answered first.
C20_Witness ==
    /\ calls[1].pc = "replied" /\ calls[2].pc = "replied"
    /\ calls[1].userId = "u1" /\ calls[2].userId = "u2"
    /\ calls[1].body.date = Iso(4) /\ calls[2].body.date = Iso(4)
    /\ calls[1].reply.status = 201 /\ calls[2].reply.status = 201
    /\ calls[1].reply.body[1].id > calls[2].reply.body[1].id
    /\ Len(tripDays) = 2
    /\ tripDays[1].dayNumber = 2 /\ tripDays[2].dayNumber = 2
    /\ Len(itineraryItems) = 2

\* ---------------------------------------------------------------------
\* C21: every stored Trip has a budget that is null or not negative.
\* POST /api/trips stores the budget of the body as it is given, so a
\* negative budget reaches the table.
C21_BudgetNeverNegative ==
    \A i \in 1..Len(trips) :
        trips[i].budget.kind = "null"
        \/ (trips[i].budget.kind = "number" /\ trips[i].budget.n >= 0)

\* ---------------------------------------------------------------------
\* C22: every stored Trip starts strictly before it ends
\* (startDate < endDate), and the date of every stored TripDay lies within
\* its trip's range: startDate <= date <= endDate.
C22_DatesWithinRanges ==
    /\ \A i \in 1..Len(trips) : trips[i].startDate < trips[i].endDate
    /\ \A i \in 1..Len(tripDays) :
          LET t == trips[tripDays[i].tripId]
          IN  t.startDate <= tripDays[i].date /\ tripDays[i].date <= t.endDate

\* A createDay has stored a day on the last instant of a trip that a
\* createTrip stored.
C22_Witness ==
    /\ IsCreateDay(req)
    /\ resp.status = 201
    /\ \E i \in 1..Len(tripDays) :
          /\ tripDays[i].tripId = req.tripId
          /\ tripDays[i].date = trips[req.tripId].endDate

\* ---------------------------------------------------------------------
\* An item that the shape check of the loop refuses (type, title, order).
ItemShapeRefused(item) ==
    /\ ItemCheck(item) # <<>>
    /\ ItemCheck(item)[1].message \in {MsgItemFields, MsgItemType}

\* An item with a startTime or an endTime that does not parse.
ItemTimeUnparsable(item) ==
    item.startTime.kind = "junk" \/ item.endTime.kind = "junk"

\* C23: createDay applies the shape check (type, title, order) to all the
\* items before the check of startTime and endTime: a createDay by a member
\* with a date in the trip's range, whose items hold one that fails the
\* shape check and another with an unparsable startTime or endTime, is
\* answered InvalidItem whatever the positions of the two items.
C23_ShapeBeforeTimes ==
    (/\ IsCreateDay(req)
     /\ HasMembership(req.userId, req.tripId)
     /\ req.body.date.kind = "iso"
     /\ req.body.date.t >= trips[req.tripId].startDate
     /\ req.body.date.t <= trips[req.tripId].endDate
     /\ req.body.itineraryItems.kind = "array"
     /\ \E i, j \in 1..Len(req.body.itineraryItems.items) :
           /\ i # j
           /\ ItemShapeRefused(req.body.itineraryItems.items[i])
           /\ ItemTimeUnparsable(req.body.itineraryItems.items[j]))
    => /\ resp.status = 400
       /\ resp.message \in {MsgItemFields, MsgItemType}

\* ---------------------------------------------------------------------
\* Trips are only added, each with its rows in one transaction: the store
\* has been, one after the other, what it holds of its first j trips.
\* The trips among the first j that user u is a member of and that have the
\* status at the instant.
MatchingOf(j, u, status, now) ==
    {t \in 1..j : HasMembership(u, t) /\ StatusHolds(status, now, trips[t])}

\* The page of reply r of call c is one of the listing of the first j
\* trips: its trips are among the matching ones, as many as the matching
\* ones leave after the skip, up to the limit.
PageDrawnFrom(j, c, r) ==
    LET M == MatchingOf(j, c.userId, c.query.status, c.now)
        l == limit(c.query).n
        left == Cardinality(M) - (page(c.query).n - 1) * l
    IN  /\ \A k \in 1..Len(r.trips) : r.trips[k].id \in M
        /\ Len(r.trips) = IF left < 0 THEN 0 ELSE IF left < l THEN left ELSE l

CountDrawnFrom(j, c, r) ==
    r.pagination.totalCount =
        Cardinality(MatchingOf(j, c.userId, c.query.status, c.now))

\* The listing asks for the first page and its limit is no less than the
\* number of the caller's matching trips.
WholeListing(c) ==
    /\ page(c.query).n = 1
    /\ limit(c.query).n >=
          Cardinality(MatchingOf(Len(trips), c.userId, c.query.status, c.now))

Answered(p) == calls[p].pc = "replied" /\ calls[p].reply.status = 200

\* C24 as stated: when listTrips(u) is served while createTrip requests
\* that make u a member commit, the totalCount and the page of its reply
\* are drawn from one state of the store; with page 1 and a limit no less
\* than the number of matching trips, the number of trips returned equals
\* totalCount.
C24_CountAndPageFromOneState ==
    \A p \in Listers :
        Answered(p) =>
            LET c == calls[p]
                r == calls[p].reply.body[1]
            IN  /\ \E j \in 0..Len(trips) :
                      CountDrawnFrom(j, c, r) /\ PageDrawnFrom(j, c, r)
                /\ WholeListing(c) => Len(r.trips) = r.pagination.totalCount

\* C24, amended: the totalCount is drawn from one state of the store and
\* the page from that state or a later one; with page 1 and a limit no
\* less than the number of matching trips, the number of trips returned is
\* at least totalCount; totalPages and hasNextPage are those of totalCount.
C24_CountThenPage ==
    \A p \in Listers :
        Answered(p) =>
            LET c == calls[p]
                r == calls[p].reply.body[1]
            IN  /\ \E i, j \in 0..Len(trips) :
                      /\ i <= j
                      /\ CountDrawnFrom(i, c, r)
                      /\ PageDrawnFrom(j, c, r)
                /\ WholeListing(c) => Len(r.trips) >= r.pagination.totalCount
                /\ r.pagination.totalPages =
                      PagesFor(r.pagination.totalCount, limit(c.query).n)
                /\ r.pagination.hasNextPage =
                      (page(c.query).n < r.pagination.totalPages)

\* A listing of the first page has counted no trip and returns one: a
\* createTrip has committed between its count and its findMany.
C24_Witness ==
    \E p \in Listers :
        /\ Answered(p)
        /\ WholeListing(calls[p])
        /\ calls[p].reply.body[1].pagination.totalCount = 0
        /\ Len(calls[p].reply.body[1].trips) = 1

\* ---------------------------------------------------------------------
\* The users with a TripMember row of trip t.
MembersOf(tm, t) == {tm[i].userId : i \in {k \in 1..Len(tm) : tm[k].tripId = t}}

\* The caller of the request was resolved and no store call failed.
Served(r) == Authenticated(r) /\ r.error = NoError

\* Every trip there is keeps the members it has.
MembersKept ==
    \A t \in 1..Len(trips) : MembersOf(tripMembers', t) = MembersOf(tripMembers, t)

\* The trip a createTrip by c with members M has just stored has the
\* members {c} \cup M.
MembersAsCreated ==
    (IsCreateTrip(req') /\ resp'.status = 201) =>
        MembersOf(tripMembers', resp'.body[1].id) =
            {req'.userId} \cup Range(req'.body.members.ids)

\* getTrip of a trip there is, the store answering: found by its members,
\* NotFound for every other user.
GetTripByMembersOnly ==
    (IsGetTrip(req') /\ Served(req') /\ TripExists(req'.tripId)) =>
        IF req'.userId \in MembersOf(tripMembers, req'.tripId)
        THEN resp'.status = 200 /\ resp'.body[1].id = req'.tripId
        ELSE resp' = NotFound

\* The unfiltered listing by a user, the store answering, counts the trips
\* the user is a member of, and those only.
ListCountsMemberships ==
    (IsListTrips(req') /\ Served(req') /\ req'.body.status = UNDEF) =>
        /\ resp'.status = 200
        /\ resp'.body[1].pagination.totalCount =
              Cardinality({t \in 1..Len(trips) :
                              req'.userId \in MembersOf(tripMembers, t)})
        /\ {resp'.body[1].trips[i].id : i \in 1..Len(resp'.body[1].trips)} =
              {t \in 1..Len(trips) : req'.userId \in MembersOf(tripMembers, t)}

\* createDay on a trip there is by a user who is not a member of it.
CreateDayByOthersNotFound ==
    (/\ IsCreateDay(req')
     /\ Served(req')
     /\ TripExists(req'.tripId)
     /\ req'.userId \notin MembersOf(tripMembers, req'.tripId))
    => resp' = NotFound

\* C25: once a createTrip by creator c with members M has succeeded, in
\* every later state, whatever the requests that led to it, getTrip(u, t)
\* succeeds and the unfiltered listTrips(u) counts t for every u of
\* {c} \cup M, and getTrip(u, t) and createDay(u, t, ...) answer NotFound
\* for every other user: the members of a trip never change.
C25_MembershipNeverChanges ==
    [][/\ MembersKept
       /\ MembersAsCreated
       /\ GetTripByMembersOnly
       /\ ListCountsMemberships
       /\ CreateDayByOthersNotFound]_vars

\* The claim without what it says of createDay.
C25_ExceptCreateDay ==
    [][/\ MembersKept
       /\ MembersAsCreated
       /\ GetTripByMembersOnly
       /\ ListCountsMemberships]_vars

\* ---------------------------------------------------------------------
\* The number of the last day of a trip: the whole days from its startDate
\* to its endDate, and one.
LastDayNumber(trip) == ((trip.endDate - trip.startDate) \div TicksPerDay) + 1

\* C26: every stored TripDay of a trip has a dayNumber from 1 to
\* floor((endDate - startDate) in whole days) + 1.
C26_DayNumberWithinTrip ==
    \A i \in 1..Len(tripDays) :
        /\ tripDays[i].dayNumber >= 1
        /\ tripDays[i].dayNumber <= LastDayNumber(trips[tripDays[i].tripId])

\* A createDay has stored the last day of a trip, and its number is not 1.
C26_Witness ==
    /\ IsCreateDay(req)
    /\ resp.status = 201
    /\ \E i \in 1..Len(tripDays) :
          /\ tripDays[i].dayNumber = LastDayNumber(trips[tripDays[i].tripId])
          /\ tripDays[i].dayNumber > 1

====
